---- MODULE Spec2Model ----
(***************************************************************************)
(* Blueberry detection and maturity analysis (ia-arandano).                *)
(*                                                                         *)
(*   BlueberryDetector.detect            strategy chain model -> colour    *)
(*                                       contours -> Hough circles         *)
(*   BlueberryDetector.analyze_maturity  bbox clamping, crop, label        *)
(*   ReportGenerator.generate_report     counts, percentages, score, bands *)
(*                                                                         *)
(* Units.  Rational numbers are kept exact: a mean is a pair sum / count,  *)
(* a confidence a record [num, den]; percentages and the maturity score    *)
(* are kept in tenths (the code rounds them to one decimal).  Raw model    *)
(* and Hough coordinates are floats in the code and are kept in half       *)
(* pixels.  Python's None is the value None below; a dict key that is      *)
(* absent is a record field that is absent.                                *)
(***************************************************************************)
EXTENDS Integers, Sequences, FiniteSets, TLC

\* ----------------------------------------------------------------- bounds
MaxDim == 2     \* SpecBox: image sides range over 1..MaxDim
BigDim == 40    \* Spec: the side of a large image (the small side is 1)
MaxDet == 2     \* Spec: detections returned by one strategy
MaxAgg == 4     \* SpecReport: detections fed to the aggregator
MaxBand == 10   \* SpecBands: detections fed to the aggregator, grouped by label
ConfDim == 4    \* SpecConf: the width of the two-band image
MaxSide == 36   \* SpecHough: image sides range over MaxSide-6..MaxSide
MaxReq == 2     \* SpecWeb: requests answered in one behaviour
MaxBatch == 2   \* SpecWeb: files in one /batch_upload request
NumReq == 2     \* SpecConc: requests processed at the same time

VARIABLES
    pc,                 \* position in process_image
    model_loaded,       \* BlueberryDetector.model_loaded (and model is not None)
    image,              \* the preprocessed image handed to the detector
    trace,              \* strategies detect has invoked, each with its output
    detections,         \* the list detect returned (dicts mutated in place later)
    raised,             \* TRUE when detect let an exception escape
    maturity_analysis,  \* the dict analyze_maturity returned
    report,             \* the dict generate_report returned
    reqs,               \* the requests being processed concurrently, each
                        \* with its own position and locals of process_image
    uuid_count,         \* how many values uuid.uuid4() has handed out
    upload_folder,      \* names of the files in app.config['UPLOAD_FOLDER']
    history,            \* rows of the table analysis_history, oldest first
    responses           \* one entry per answered /upload or /batch_upload

webvars == <<uuid_count, upload_folder, history, responses>>

vars == <<pc, model_loaded, image, trace, detections, raised,
          maturity_analysis, report, reqs, uuid_count, upload_folder,
          history, responses>>

None == "None"
NoValue == <<>>

Max(a, b) == IF a >= b THEN a ELSE b
Min(a, b) == IF a <= b THEN a ELSE b

\* All sequences over S of length 0..n.
SeqUpTo(S, n) == UNION {[1..k -> S] : k \in 0..n}

\* d.get(key, default) for the key 'maturity'.
GetMaturity(d, default) ==
    IF "maturity" \in DOMAIN d THEN d.maturity ELSE default

\* dict update d[key] = value (adds the key when absent).
SetField(d, key, value) ==
    [k \in DOMAIN d \cup {key} |-> IF k = key THEN value ELSE d[k]]

\* ------------------------------------------------------------------ image
\* An image is w x h pixels. Its HSV content (what cv2.cvtColor RGB2HSV
\* yields) is two vertical bands: columns < split have colour left, the
\* others colour right. cvt_fails: cv2.cvtColor raises on this array
\* (wrong dtype / channel count).
Dark  == <<110, 200, 100>>
Light == <<110, 200, 200>>
Green == <<130, 200, 100>>
Blue  == <<120, 255, 255>>     \* pure blue, RGB (0, 0, 255)
Pale  == <<110, 100, 100>>     \* saturation on its threshold
Mid   == <<110, 200, 150>>     \* value on its threshold
Red   == <<0, 200, 100>>       \* hue far from the blues

Images(dimsW, dimsH, palette, fails) ==
    {[w |-> w, h |-> h, split |-> w \div 2, left |-> l, right |-> r,
      cvt_fails |-> f] :
        w \in dimsW, h \in dimsH, l \in palette, r \in palette, f \in fails}

\* image is None: every access to image.shape raises, cv2 rejects it.
NullImage ==
    [w |-> 0, h |-> 0, split |-> 0, left |-> Dark, right |-> Dark,
     cvt_fails |-> TRUE, is_none |-> TRUE]

IsNone(img) == "is_none" \in DOMAIN img

\* numpy basic slice a[start:stop] on an axis of length n: first index, length.
PySlice(start, stop, n) ==
    LET norm(i) == IF i < 0 THEN Max(i + n, 0) ELSE Min(i, n)
    IN  [lo |-> norm(start), len |-> Max(0, norm(stop) - norm(start))]

\* image[y1:y2, x1:x2]
Crop(img, x1, y1, x2, y2) ==
    LET xs == PySlice(x1, x2, img.w)
        ys == PySlice(y1, y2, img.h)
    IN  [x0 |-> xs.lo, cols |-> xs.len, y0 |-> ys.lo, rows |-> ys.len]

\* berry_region.size (three channels)
RegionSize(region) == region.rows * region.cols * 3

\* Columns of the crop that lie in the left band.
LeftCols(img, region) ==
    Max(0, Min(region.x0 + region.cols, img.split) - region.x0)

\* All rows of a crop are equal, so a mean (or variance) over the crop is the
\* mean (or variance) over one of its rows: the sum of channel c, and of its
\* square, over one row of region.cols pixels.
ChannelSum(img, region, c) ==
    LET nl == LeftCols(img, region)
        nr == region.cols - nl
    IN  nl * img.left[c] + nr * img.right[c]

ChannelSquareSum(img, region, c) ==
    LET nl == LeftCols(img, region)
        nr == region.cols - nl
    IN  nl * img.left[c] * img.left[c] + nr * img.right[c] * img.right[c]

\* -------------------------------------------------- maturity of one berry
\* The threshold ladder on (mean_hue, mean_saturation, mean_value), the means
\* given as sums over n pixels: mean < t  <=>  sum < t * n.
ClassifyMeans(hue, sat, val, n) ==
    IF hue < 120 * n /\ sat > 100 * n
    THEN IF val > 150 * n THEN "semimaduro" ELSE "maduro"
    ELSE IF hue > 120 * n THEN "no_maduro"
    ELSE "unknown"

\* _analyze_berry_maturity: any exception (cvtColor) yields 'unknown'.
_analyze_berry_maturity(img, region) ==
    IF img.cvt_fails THEN "unknown"
    ELSE ClassifyMeans(ChannelSum(img, region, 1), ChannelSum(img, region, 2),
                       ChannelSum(img, region, 3), region.cols)

\* _calculate_maturity_confidence without the max(0.0, ...).
ConfidenceNoLowerClamp(img, region) ==
    IF img.cvt_fails THEN [num |-> 1, den |-> 2]
    ELSE LET n   == region.cols
             s   == ChannelSum(img, region, 1)
             v   == n * ChannelSquareSum(img, region, 1) - s * s
             den == 1000 * n * n
         IN  [num |-> Min(den, den - v), den |-> den]

\* _calculate_maturity_confidence: min(1, max(0, 1 - var(hue)/1000)), and 0.5
\* on any exception. var = (n*sum(h^2) - sum(h)^2) / n^2.
_calculate_maturity_confidence(img, region) ==
    IF img.cvt_fails THEN [num |-> 1, den |-> 2]
    ELSE LET n   == region.cols
             s   == ChannelSum(img, region, 1)
             v   == n * ChannelSquareSum(img, region, 1) - s * s
             den == 1000 * n * n
         IN  [num |-> Min(den, Max(0, den - v)), den |-> den]

\* ------------------------------------------------------- analyze_maturity
\* max(0, min(int(v), limit))
ClampCoord(v, limit) == Max(0, Min(v, limit))

\* NormalizeBBox padding the box by one pixel to the left before clamping.
NormalizeBBoxPadded(bbox, img) ==
    LET x1n == ClampCoord(bbox[1] - 1, img.w - 1)
        y1n == ClampCoord(bbox[2], img.h - 1)
        x2c == ClampCoord(bbox[3], img.w - 1)
        y2c == ClampCoord(bbox[4], img.h - 1)
        x2n == IF x2c <= x1n THEN Min(img.w - 1, x1n + 1) ELSE x2c
        y2n == IF y2c <= y1n THEN Min(img.h - 1, y1n + 1) ELSE y2c
    IN  <<x1n, y1n, x2n, y2n>>

\* The bbox normalised to the image (the four clamps and the two repairs).
NormalizeBBox(bbox, img) ==
    LET x1n == ClampCoord(bbox[1], img.w - 1)
        y1n == ClampCoord(bbox[2], img.h - 1)
        x2c == ClampCoord(bbox[3], img.w - 1)
        y2c == ClampCoord(bbox[4], img.h - 1)
        x2n == IF x2c <= x1n THEN Min(img.w - 1, x1n + 1) ELSE x2c
        y2n == IF y2c <= y1n THEN Min(img.h - 1, y1n + 1) ELSE y2c
    IN  <<x1n, y1n, x2n, y2n>>

\* LabelOfCrop with the model's label ignored: always the colour heuristic.
LabelOfCropHeuristicOnly(d, img, region) == _analyze_berry_maturity(img, region)

\* The label given to a detection whose crop is not empty.
LabelOfCrop(d, img, region) ==
    IF GetMaturity(d, None) \in {"maduro", "semimaduro", "no_maduro"}
    THEN d.maturity
    ELSE _analyze_berry_maturity(img, region)

\* AnalyzeDetection storing the maturity confidence under 'confidence' too.
AnalyzeDetectionSharedKey(d, img) ==
    LET b      == NormalizeBBox(d.bbox, img)
        region == Crop(img, b[1], b[2], b[3], b[4])
        d1     == SetField(d, "bbox", b)
    IN  IF RegionSize(region) > 0
        THEN SetField(SetField(SetField(d1, "maturity", LabelOfCrop(d1, img, region)),
                               "maturity_confidence",
                               _calculate_maturity_confidence(img, region)),
                      "confidence", _calculate_maturity_confidence(img, region))
        ELSE SetField(SetField(d1, "maturity", GetMaturity(d1, "unknown")),
                      "maturity_confidence",
                      IF "maturity_confidence" \in DOMAIN d1
                      THEN d1.maturity_confidence
                      ELSE [num |-> 0, den |-> 1])

\* One iteration of the loop body for a detection whose bbox has 4 entries:
\* the detection dict after the in-place updates.
AnalyzeDetection(d, img) ==
    LET b      == NormalizeBBox(d.bbox, img)
        region == Crop(img, b[1], b[2], b[3], b[4])
        d1     == SetField(d, "bbox", b)
    IN  IF RegionSize(region) > 0
        THEN SetField(SetField(d1, "maturity", LabelOfCrop(d1, img, region)),
                      "maturity_confidence",
                      _calculate_maturity_confidence(img, region))
        ELSE SetField(SetField(d1, "maturity", GetMaturity(d1, "unknown")),
                      "maturity_confidence",
                      IF "maturity_confidence" \in DOMAIN d1
                      THEN d1.maturity_confidence
                      ELSE [num |-> 0, den |-> 1])

\* bbox = detection.get('bbox', []); len(bbox) == 4
HasBBox(d) == "bbox" \in DOMAIN d /\ Len(d.bbox) = 4

\* A bbox entry that int() rejects (float('nan'): ValueError), kept as a
\* number outside every coordinate range.
NaN == -1000

\* The loop body raises on this detection: image.shape of None (line 269) or
\* int() of a malformed entry (lines 270-273), before the dict is touched.
RaisesAt(d, img) ==
    HasBBox(d) /\ (IsNone(img) \/ \E k \in 1..4 : d.bbox[k] = NaN)

\* The index of the first detection the loop raises on, 0 if there is none.
FirstRaise(dets, img) ==
    IF \E i \in 1..Len(dets) : RaisesAt(dets[i], img)
    THEN CHOOSE i \in 1..Len(dets) :
             /\ RaisesAt(dets[i], img)
             /\ \A j \in 1..(i - 1) : ~RaisesAt(dets[j], img)
    ELSE 0

\* The detection dicts after the loop: those with a 4-entry bbox are updated
\* in place, the others are left as they were; the loop stops at the first
\* detection it raises on.
MutatedDetections(dets, img) ==
    LET stop == FirstRaise(dets, img)
    IN  [i \in 1..Len(dets) |->
            IF HasBBox(dets[i]) /\ (stop = 0 \/ i < stop)
            THEN AnalyzeDetection(dets[i], img) ELSE dets[i]]

\* except Exception of analyze_maturity: print and return the empty analysis.
AnalyzeExcept ==
    [detections |-> << >>, image_resolution |-> "Unknown", total_detected |-> 0]

\* analyze_maturity returning, on an exception, the detections it had
\* processed before it.
AnalyzeKeepsProcessed(dets, img) ==
    IF IsNone(img) THEN AnalyzeExcept
    ELSE LET results == SelectSeq(MutatedDetections(dets, img),
                                  LAMBDA d : "maturity_confidence" \in DOMAIN d)
         IN  [detections       |-> results,
              image_resolution |-> <<img.w, img.h>>,
              total_detected   |-> Len(results)]

\* analyze_maturity: maturity_results holds the updated dicts that had a
\* 4-entry bbox, in order; any exception (in the loop, or image.shape of the
\* return statement) gives the empty analysis.
analyze_maturity(dets, img) ==
    IF FirstRaise(dets, img) # 0 \/ IsNone(img) THEN AnalyzeExcept
    ELSE LET results == SelectSeq(MutatedDetections(dets, img), HasBBox)
         IN  [detections       |-> results,
              image_resolution |-> <<img.w, img.h>>,
              total_detected   |-> Len(results)]

\* -------------------------------------------------------- ReportGenerator
\* round(num / den, 0) as Python rounds: to the nearest integer, ties to even.
\* The caller scales by 10, so that round(x, 1) is PyRound(10 x) tenths.
PyRound(num, den) ==
    LET q == num \div den
        r == num % den
    IN  IF 2 * r < den THEN q
        ELSE IF 2 * r > den THEN q + 1
        ELSE IF q % 2 = 0 THEN q ELSE q + 1

\* CountLoop counting only the labels that are keys already.
RECURSIVE CountLoopKnownKeys(_, _, _)
CountLoopKnownKeys(counts, dets, i) ==
    IF i > Len(dets) THEN counts
    ELSE LET maturity == GetMaturity(dets[i], "unknown")
         IN  CountLoopKnownKeys(
                 IF maturity \in DOMAIN counts
                 THEN SetField(counts, maturity, counts[maturity] + 1)
                 ELSE counts, dets, i + 1)

\* The counting loop from detection i on:
\*   maturity = detection.get('maturity', 'unknown')
\*   maturity_counts[maturity] = maturity_counts.get(maturity, 0) + 1
RECURSIVE CountLoop(_, _, _)
CountLoop(counts, dets, i) ==
    IF i > Len(dets) THEN counts
    ELSE LET maturity == GetMaturity(dets[i], "unknown")
             old      == IF maturity \in DOMAIN counts THEN counts[maturity] ELSE 0
         IN  CountLoop(SetField(counts, maturity, old + 1), dets, i + 1)

\* sum(d.values())
RECURSIVE SumValues(_, _)
SumValues(d, keys) ==
    IF keys = {} THEN 0
    ELSE LET k == CHOOSE x \in keys : TRUE
         IN  d[k] + SumValues(d, keys \ {k})

\* _calculate_maturity_score dividing by the labelled berries only (the
\* 'unknown' bucket left out of the denominator).
ScoreOverKnown(maturity_counts, total) ==
    LET get(k) == IF k \in DOMAIN maturity_counts THEN maturity_counts[k] ELSE 0
        known  == total - get("unknown")
    IN  IF known <= 0 THEN 0
        ELSE PyRound(1000 * (2 * get("maduro") + get("semimaduro")), 2 * known)

\* _calculate_maturity_score with the two weights exchanged.
ScoreWeightsSwapped(maturity_counts, total) ==
    LET get(k) == IF k \in DOMAIN maturity_counts THEN maturity_counts[k] ELSE 0
    IN  IF total = 0 THEN 0
        ELSE PyRound(1000 * (get("maduro") + 2 * get("semimaduro")), 2 * total)

\* _calculate_maturity_score, in tenths: maduro 1.0, semimaduro 0.5,
\* no_maduro 0.0 over total, times 100, rounded to one decimal.
_calculate_maturity_score(maturity_counts, total) ==
    LET get(k) == IF k \in DOMAIN maturity_counts THEN maturity_counts[k] ELSE 0
    IN  IF total = 0 THEN 0
        ELSE PyRound(1000 * (2 * get("maduro") + get("semimaduro")), 2 * total)

\* _analyze_maturity_distribution; percentages in tenths of a percent.
_analyze_maturity_distribution(analysis) ==
    LET dets   == analysis.detections
        zero   == [k \in {"maduro", "semimaduro", "no_maduro", "unknown"} |-> 0]
        counts == CountLoop(zero, dets, 1)
        total  == SumValues(counts, DOMAIN counts)
    IN  [counts         |-> counts,
         percentages    |-> IF total > 0
                            THEN [k \in DOMAIN counts |->
                                     PyRound(1000 * counts[k], total)]
                            ELSE << >>,
         total_analyzed |-> total,
         maturity_score |-> _calculate_maturity_score(counts, total)]

\* _get_harvest_recommendation (score in tenths)
_get_harvest_recommendation(maturity_score) ==
    IF maturity_score >= 800
    THEN "Cosecha inmediata recomendada - Alta proporcion de frutos maduros"
    ELSE IF maturity_score >= 600
    THEN "Cosecha en 2-3 dias - Buena proporcion de frutos maduros"
    ELSE IF maturity_score >= 400
    THEN "Cosecha en 5-7 dias - Proporcion moderada de frutos maduros"
    ELSE IF maturity_score >= 200
    THEN "Cosecha en 10-14 dias - Mayoria de frutos aun inmaduros"
    ELSE "No cosechar aun - Frutos predominantemente inmaduros"

\* _get_timing_recommendation with the bound of the second band exclusive.
TimingExclusiveBound(maturity_score) ==
    IF maturity_score >= 800 THEN "Urgente - Cosechar dentro de 24-48 horas"
    ELSE IF maturity_score > 600 THEN "Pronto - Cosechar dentro de 3-5 dias"
    ELSE IF maturity_score >= 400 THEN "Moderado - Cosechar dentro de 1 semana"
    ELSE IF maturity_score >= 200 THEN "Paciente - Cosechar dentro de 2 semanas"
    ELSE "Esperar - Continuar monitoreo semanal"

\* _get_timing_recommendation (score in tenths)
_get_timing_recommendation(maturity_score) ==
    IF maturity_score >= 800 THEN "Urgente - Cosechar dentro de 24-48 horas"
    ELSE IF maturity_score >= 600 THEN "Pronto - Cosechar dentro de 3-5 dias"
    ELSE IF maturity_score >= 400 THEN "Moderado - Cosechar dentro de 1 semana"
    ELSE IF maturity_score >= 200 THEN "Paciente - Cosechar dentro de 2 semanas"
    ELSE "Esperar - Continuar monitoreo semanal"

\* _get_quality_assessment with its bounds tested from the lowest up.
QualityLowestFirst(counts) ==
    LET total  == SumValues(counts, DOMAIN counts)
        maduro == IF "maduro" \in DOMAIN counts THEN counts["maduro"] ELSE 0
    IN  IF total = 0 THEN "No se detectaron frutos"
        ELSE IF 100 * maduro >= 30 * total
        THEN "Excelente - Alta calidad de maduracion"
        ELSE IF 100 * maduro >= 50 * total
        THEN "Buena - Calidad de maduracion aceptable"
        ELSE IF 100 * maduro >= 70 * total
        THEN "Regular - Calidad de maduracion moderada"
        ELSE "Baja - Calidad de maduracion deficiente"

\* _get_quality_assessment fed with the weighted fraction of the score
\* (semimaduro counted one half) instead of the ripe fraction.
QualityFromWeighted(counts) ==
    LET total  == SumValues(counts, DOMAIN counts)
        get(k) == IF k \in DOMAIN counts THEN counts[k] ELSE 0
        weight == 2 * get("maduro") + get("semimaduro")
    IN  IF total = 0 THEN "No se detectaron frutos"
        ELSE IF 100 * weight >= 140 * total
        THEN "Excelente - Alta calidad de maduracion"
        ELSE IF 100 * weight >= 100 * total
        THEN "Buena - Calidad de maduracion aceptable"
        ELSE IF 100 * weight >= 60 * total
        THEN "Regular - Calidad de maduracion moderada"
        ELSE "Baja - Calidad de maduracion deficiente"

\* _get_quality_assessment: maduro_pct = maduro / total * 100 against 70/50/30.
_get_quality_assessment(counts) ==
    LET total  == SumValues(counts, DOMAIN counts)
        maduro == IF "maduro" \in DOMAIN counts THEN counts["maduro"] ELSE 0
    IN  IF total = 0 THEN "No se detectaron frutos"
        ELSE IF 100 * maduro >= 70 * total
        THEN "Excelente - Alta calidad de maduracion"
        ELSE IF 100 * maduro >= 50 * total
        THEN "Buena - Calidad de maduracion aceptable"
        ELSE IF 100 * maduro >= 30 * total
        THEN "Regular - Calidad de maduracion moderada"
        ELSE "Baja - Calidad de maduracion deficiente"

\* _get_next_steps: the first entry names the list (four lists, three bounds).
_get_next_steps(maturity_score) ==
    IF maturity_score >= 800
    THEN <<"Preparar equipos de cosecha", "Organizar personal de cosecha",
           "Verificar condiciones de almacenamiento",
           "Programar transporte para venta inmediata">>
    ELSE IF maturity_score >= 600
    THEN <<"Continuar monitoreo diario", "Preparar equipos de cosecha",
           "Evaluar condiciones climaticas", "Planificar logistica de cosecha">>
    ELSE IF maturity_score >= 400
    THEN <<"Continuar monitoreo cada 2-3 dias", "Evaluar condiciones de riego",
           "Verificar nutricion de plantas", "Preparar plan de cosecha">>
    ELSE <<"Continuar monitoreo semanal", "Evaluar condiciones de cultivo",
           "Verificar nutricion y riego", "Mantener control de plagas">>

\* _generate_recommendations
_generate_recommendations(maturity_dist) ==
    [harvest_recommendation |->
         _get_harvest_recommendation(maturity_dist.maturity_score),
     timing_recommendation  |->
         _get_timing_recommendation(maturity_dist.maturity_score),
     quality_assessment     |-> _get_quality_assessment(maturity_dist.counts),
     next_steps             |-> _get_next_steps(maturity_dist.maturity_score)]

\* generate_report: the two sections that depend on the detections' labels.
generate_report(analysis) ==
    LET maturity_dist == _analyze_maturity_distribution(analysis)
    IN  [detection_summary |-> [total_blueberries |-> Len(analysis.detections)],
         maturity_analysis |-> maturity_dist,
         recommendations   |-> _generate_recommendations(maturity_dist)]

\* ------------------------------------------------------ BlueberryDetector
\* A call returns [exc, val, calls]: exc is TRUE when an exception escapes it,
\* val is the returned list, calls the strategies it invoked, in order, each
\* [strategy, out, failed] with the detections that strategy produced.
Call(strategy, out, failed) ==
    [strategy |-> strategy, out |-> out, failed |-> failed]

Returned(val, calls) == [exc |-> FALSE, val |-> val, calls |-> calls]
Escaped(calls) == [exc |-> TRUE, val |-> << >>, calls |-> calls]

\* int(x) of a float given in half units: truncation toward zero.
PyInt(half) == IF half >= 0 THEN half \div 2 ELSE -((-half) \div 2)

\* np.around of a float given in half units (ties to even).
Around(half) == PyRound(half, 2)

\* numpy uint16 scalar arithmetic wraps.
U16(x) == x % 65536

\* The names of the loaded model (result.names), indexed by class_id + 1.
ModelNames == <<"maduro", "Semi-Ripe", "blueberry">>

\* str(class_name).strip().lower().replace(' ', '_').replace('-', '_'),
\* tabulated on the names above.
NormName(class_name) ==
    IF class_name = "Semi-Ripe" THEN "semi_ripe" ELSE class_name

\* The maturity label of a normalised class name, None when unrecognised.
MaturityClass(norm_name) ==
    IF norm_name \in {"maduro", "semimaduro", "no_maduro"} THEN norm_name
    ELSE IF norm_name \in {"ripe"} THEN "maduro"
    ELSE IF norm_name \in {"semi_ripe", "semi-ripe", "semi_maduro"} THEN "semimaduro"
    ELSE IF norm_name \in {"unripe", "no_maduro", "inmaduro"} THEN "no_maduro"
    ELSE None

\* The detection dict built from one box of the model: xyxy in half pixels,
\* area in quarter square pixels.
YoloDetection(box) ==
    LET class_name == IF box.cls >= 0 /\ box.cls < Len(ModelNames)
                      THEN ModelNames[box.cls + 1] ELSE "class_"
    IN  [bbox       |-> <<PyInt(box.xyxy[1]), PyInt(box.xyxy[2]),
                          PyInt(box.xyxy[3]), PyInt(box.xyxy[4])>>,
         confidence |-> box.conf,
         class      |-> class_name,
         class_id   |-> box.cls,
         area       |-> (box.xyxy[3] - box.xyxy[1]) * (box.xyxy[4] - box.xyxy[2]),
         maturity   |-> MaturityClass(NormName(class_name))]

\* except Exception of _yolo_detection: print and return [].
YoloExcept == Returned(<< >>, <<Call("yolo", << >>, TRUE)>>)

\* _yolo_detection: the model call raises, or yields boxes.
_yolo_detection(outcome) ==
    IF outcome.raises THEN YoloExcept
    ELSE LET dets == [i \in 1..Len(outcome.boxes) |->
                         YoloDetection(outcome.boxes[i])]
         IN  Returned(dets, <<Call("yolo", dets, FALSE)>>)

\* min_area without the floor relative to the image size.
MinAreaAbsolute(img) == 100

\* min_area = max(100, int(0.0005 * img_area))
MinArea(img) == Max(100, (img.w * img.h) \div 2000)

\* The filter of the contour loop; area2 is twice cv2.contourArea.
ContourKept(c, img) ==
    /\ ~(c.area2 < 2 * MinArea(img))
    /\ ~(IF c.h > 0 THEN 2 * c.w < c.h \/ 10 * c.w > 18 * c.h ELSE TRUE)

\* confidence = min(0.99, area / (0.02 * img_area))
ContourConfidence(c, img) ==
    IF 100 * 25 * c.area2 >= 99 * img.w * img.h
    THEN [num |-> 99, den |-> 100]
    ELSE [num |-> 25 * c.area2, den |-> img.w * img.h]

ContourDetection(c, img) ==
    [bbox       |-> <<c.x, c.y, c.x + c.w, c.y + c.h>>,
     confidence |-> ContourConfidence(c, img),
     class      |-> "blueberry",
     area       |-> c.area2]

\* minRadius without the floor of 5 pixels.
MinRadiusRelative(img) == Min(img.h, img.w) \div 100

\* minRadius / maxRadius handed to cv2.HoughCircles
MinRadius(img) == Max(5, Min(img.h, img.w) \div 100)
MaxRadius(img) == (Min(img.h, img.w) * 15) \div 100

\* The detection dict of one circle (cx, cy, r floats in half pixels):
\* rounded, cast to uint16, then cx - r and cx + r in uint16 arithmetic.
CircleDetection(c, img) ==
    LET cx == U16(Around(c.cx))
        cy == U16(Around(c.cy))
        r  == U16(Around(c.r))
        x1 == U16(cx - r)
        y1 == U16(cy - r)
        x2 == U16(cx + r)
        y2 == U16(cy + r)
    IN  [bbox       |-> <<Max(0, x1), Max(0, y1),
                          Min(img.w - 1, x2), Min(img.h - 1, y2)>>,
         confidence |-> [num |-> 1, den |-> 2],
         class      |-> "blueberry",
         area       |-> (x2 - x1) * (y2 - y1)]

\* The Hough fallback (its own try / except: pass): the circles appended.
HoughFallback(hough, img) ==
    IF hough.raises THEN << >>
    ELSE [i \in 1..Len(hough.circles) |-> CircleDetection(hough.circles[i], img)]

\* ColorExcept re-raising instead of returning [].
ColorExceptReraise == Escaped(<<Call("contour", << >>, TRUE)>>)

\* except Exception of _color_based_detection: print and return [].
ColorExcept == Returned(<< >>, <<Call("contour", << >>, TRUE)>>)

\* _color_based_detection running the circle search whatever the contour
\* stage kept.
ColorAlwaysHough(img, cv) ==
    IF img.cvt_fails THEN ColorExcept
    ELSE LET kept    == SelectSeq(cv.contours, LAMBDA c : ContourKept(c, img))
             dets    == [i \in 1..Len(kept) |-> ContourDetection(kept[i], img)]
             circles == HoughFallback(cv.hough, img)
         IN  Returned(dets \o circles,
                      <<Call("contour", dets, FALSE),
                        Call("circle", circles, cv.hough.raises)>>)

\* _color_based_detection. cv holds what OpenCV yields on this image: the
\* external contours found in the mask and the outcome of HoughCircles.
_color_based_detection(img, cv) ==
    IF img.cvt_fails THEN ColorExcept
    ELSE LET kept == SelectSeq(cv.contours, LAMBDA c : ContourKept(c, img))
             dets == [i \in 1..Len(kept) |-> ContourDetection(kept[i], img)]
         IN  IF dets = << >>
             THEN LET circles == HoughFallback(cv.hough, img)
                  IN  Returned(circles,
                               <<Call("contour", dets, FALSE),
                                 Call("circle", circles, cv.hough.raises)>>)
             ELSE Returned(dets, <<Call("contour", dets, FALSE)>>)

\* DetectPrimary running the colour stage whatever the model returned.
DetectPrimaryAlwaysColor(outcome) ==
    LET r == _yolo_detection(outcome)
    IN  [next |-> IF r.exc THEN "handler" ELSE "color", r |-> r]

\* detect, lines 77-81: the primary model is loaded and is asked first.
\* [next, r]: where detect goes on and what _yolo_detection returned.
DetectPrimary(outcome) ==
    LET r == _yolo_detection(outcome)
    IN  [next |-> IF r.exc THEN "handler"
                  ELSE IF r.val = << >> THEN "color" ELSE "detected",
         r    |-> r]

\* detect, lines 82-94: the colour call of the try body (in_handler FALSE;
\* an exception escaping it is caught and the call repeated in the except
\* clause) or the call of the except clause itself (in_handler TRUE).
DetectColor(img, cv, in_handler) ==
    LET first == _color_based_detection(img, cv)
    IN  IF first.exc /\ ~in_handler
        THEN LET again == _color_based_detection(img, cv)
             IN  [again EXCEPT !.calls = first.calls \o again.calls]
        ELSE first

\* ------------------------------------------------- what OpenCV / the model yield
\* Boxes of the model on an image (xyxy in half pixels): the whole image, a
\* sliver on the right edge, a box short of the right and bottom edges.
YoloBoxes(img) ==
    {[xyxy |-> xy, conf |-> [num |-> 9, den |-> 10], cls |-> c] :
        xy \in {<<0, 0, 2 * img.w, 2 * img.h>>,
                <<2 * img.w - 1, 0, 2 * img.w, 2 * img.h>>,
                <<0, 0, 2 * img.w - 3, 2 * img.h - 3>>},
        c \in 0..(Len(ModelNames) - 1)}

\* On an image without pixels the model raises or finds nothing.
YoloOutcomes(img) ==
    {[raises |-> TRUE, boxes |-> << >>]} \cup
    {[raises |-> FALSE, boxes |-> b] :
        b \in SeqUpTo(IF img.w = 0 \/ img.h = 0 THEN {} ELSE YoloBoxes(img),
                      MaxDet)}

\* Contours of the mask: the whole image, a flat band, a blob of area 99.5
\* and a blob of area 100 touching the right and bottom edges; on an image of
\* 200000 pixels or more also four blobs whose areas lie half a pixel apart
\* around 0.0005 x image area.
ContourCandidates(img) ==
    {[area2 |-> 2 * (img.w - 1) * (img.h - 1),
      x |-> 0, y |-> 0, w |-> img.w, h |-> img.h]} \cup
    (IF img.h >= 4
     THEN {[area2 |-> 2 * (img.w - 1) * ((img.h \div 4) - 1),
            x |-> 0, y |-> 0, w |-> img.w, h |-> img.h \div 4]}
     ELSE {}) \cup
    (IF img.w >= 11 /\ img.h >= 11
     THEN {[area2 |-> 199, x |-> 0, y |-> 0, w |-> 11, h |-> 11],
           [area2 |-> 200, x |-> img.w - 11, y |-> img.h - 11,
            w |-> 11, h |-> 11]}
     ELSE {}) \cup
    (IF img.w * img.h >= 200000
     THEN {[area2 |-> (img.w * img.h) \div 1000 + k,
            x |-> 0, y |-> 0, w |-> 20, h |-> 20] : k \in -2..1}
     ELSE {})

\* Circles HoughCircles can report (cx, cy, r in half pixels): none when no
\* radius fits; else one in the middle and one whose centre is nearer to the
\* left edge than its radius.
CircleCandidates(img) ==
    IF MaxRadius(img) < MinRadius(img) THEN {}
    ELSE {[cx |-> img.w, cy |-> img.h, r |-> 2 * MinRadius(img)],
          [cx |-> 2 * (MinRadius(img) - 2), cy |-> img.h,
           r |-> 2 * MinRadius(img) + 1]}

CvOutcomes(img) ==
    {[contours |-> cs, hough |-> h] :
        cs \in SeqUpTo(ContourCandidates(img), MaxDet),
        h \in {[raises |-> TRUE, circles |-> << >>]} \cup
              {[raises |-> FALSE, circles |-> c] :
                  c \in SeqUpTo(CircleCandidates(img), MaxDet)}}

\* ------------------------------------------------------------------ app.py
\* detector.detect(image) given what the model and OpenCV yield on the image:
\* the primary model when it is loaded, the colour stage when it is not, when
\* the model finds nothing and when the model call raises.
detect(img, loaded, yolo, cv) ==
    IF loaded
    THEN LET step == DetectPrimary(yolo)
         IN  IF step.next = "detected" THEN step.r
             ELSE LET r == DetectColor(img, cv, step.next = "handler")
                  IN  [r EXCEPT !.calls = step.r.calls \o r.calls]
    ELSE DetectColor(img, cv, FALSE)

\* process_image raising: "Error procesando imagen: ..."
ProcessRaised == [exc |-> TRUE, result |-> NoValue]

\* process_image from the analysis on: the report and the returned dict.
ProcessResult(analysis) ==
    {[exc    |-> FALSE,
      result |-> [detections        |-> analysis.total_detected,
                  maturity_analysis |-> analysis,
                  report            |-> r]] :
        r \in {generate_report(analysis)}}

\* process_image: [exc, result]. cv2.imread returning None raises, and so
\* does any exception of a stage; else the dict of the analysis results.
\* Each local (detections, maturity_analysis, report) is bound once, as a
\* member of the set that holds its value.
process_image(img, loaded, yolo, cv) ==
    IF IsNone(img) THEN ProcessRaised
    ELSE CHOOSE p \in UNION {
             IF d.exc THEN {ProcessRaised}
             ELSE UNION {ProcessResult(analysis) :
                            analysis \in {analyze_maturity(d.val, img)}} :
                 d \in {detect(img, loaded, yolo, cv)}} : TRUE

ALLOWED_EXTENSIONS == {"jpg", "jpeg", "png", "bmp", "tiff"}

\* str.lower() on the extensions that occur
Lower(ext) == IF ext = "JPG" THEN "jpg" ELSE ext

\* allowed_file: a file name is [stem, ext], ext None when it has no '.'
allowed_file(filename) ==
    filename.ext # None /\ Lower(filename.ext) \in ALLOWED_EXTENSIONS

\* Image.open(filepath) and im.verify() of upload_file: verify() reads the
\* file's structure and does not decode the pixel data, so it rejects content
\* that is no image at all ("text") and lets pass a real image ("image") and
\* an image header followed by missing or damaged pixel data ("broken").
PilVerifies(content) == content.kind \in {"image", "broken"}

\* cv2.imread(image_path): the image, or None for content it cannot decode;
\* of broken content it decodes what it can or gives up.
ImreadOutcomes(content) ==
    CASE content.kind = "image"  -> {content.image}
      [] content.kind = "text"   -> {NullImage}
      [] content.kind = "broken" -> {NullImage, content.image}

\* f"{uuid.uuid4()}_{filename}": uuid4 values are taken to be distinct, the
\* n-th one is n.
UniqueFilename(n, filename) == [uuid |-> n, name |-> filename]

\* SimpleDatabase.save_analysis: the row inserted into analysis_history.
\* result.get('filename', ''); request is not a column: it records which
\* request made the call.
save_analysis(result, filename, batch_id, request) ==
    [filename         |-> filename,
     total_detections |-> result.maturity_analysis.total_detected,
     maturity_score   |-> result.report.maturity_analysis.maturity_score,
     batch_id         |-> batch_id,
     request          |-> request]

\* One entry of responses: the endpoint, the files sent, the names under which
\* files were saved, and the status code of the answer.
Response(endpoint, files, saved, status) ==
    [endpoint |-> endpoint, files |-> files, saved |-> saved,
     status |-> status]

\* The image uploaded files hold, and what the model yields on it: an
\* exception, no box, or one box around the whole image of one of the first
\* two classes. OpenCV finds no contour and no circle on it.
WebImages == Images({MaxDim}, {MaxDim}, {Dark}, {FALSE})

NoYolo == [raises |-> TRUE, boxes |-> << >>]

NoCv == [contours |-> << >>, hough |-> [raises |-> FALSE, circles |-> << >>]]

WebOracles(img) ==
    IF IsNone(img) THEN {NoYolo}
    ELSE {yolo \in YoloOutcomes(img) :
             /\ Len(yolo.boxes) <= 1
             /\ \A i \in 1..Len(yolo.boxes) :
                    /\ yolo.boxes[i].xyxy = <<0, 0, 2 * img.w, 2 * img.h>>
                    /\ yolo.boxes[i].cls <= 1}

WebContents ==
    {[kind |-> k, image |-> img] : k \in {"image", "broken"}, img \in WebImages}
    \cup {[kind |-> "text", image |-> NullImage]}

WebFiles ==
    {[filename |-> [stem |-> "test", ext |-> e], content |-> c] :
        e \in {"jpg", "JPG", "txt", None}, c \in WebContents}

\* upload_file, the whole handler: no 'file' part and a name that is not
\* allowed are answered 400 before anything is saved; else the file is
\* saved under a fresh name, removed again and answered 400 when PIL rejects
\* it, and otherwise processed: an exception gives 500, a result is saved to
\* the history (batch_id None) and answered 200.
UploadFile ==
    /\ Len(responses) < MaxReq
    /\ \/ /\ responses' = Append(responses, Response("upload", << >>, << >>, 400))
          /\ UNCHANGED <<uuid_count, upload_folder, history>>
       \/ \E file \in WebFiles :
        IF ~allowed_file(file.filename)
        THEN /\ responses' = Append(responses,
                                    Response("upload", <<file>>, << >>, 400))
             /\ UNCHANGED <<uuid_count, upload_folder, history>>
        ELSE LET unique == UniqueFilename(uuid_count + 1, file.filename)
             IN  /\ uuid_count' = uuid_count + 1
                 /\ IF ~PilVerifies(file.content)
                    THEN /\ upload_folder' = upload_folder
                         /\ history' = history
                         /\ responses' = Append(responses,
                                Response("upload", <<file>>, <<unique>>, 400))
                    ELSE \E img \in ImreadOutcomes(file.content) :
                         \E yolo \in WebOracles(img) :
                         \E p \in {process_image(img, model_loaded, yolo, NoCv)} :
                                /\ upload_folder' = upload_folder \cup {unique}
                                /\ history' =
                                      IF p.exc THEN history
                                      ELSE Append(history,
                                               save_analysis(p.result, "", None,
                                                   Len(responses) + 1))
                                /\ responses' = Append(responses,
                                      Response("upload", <<file>>, <<unique>>,
                                               IF p.exc THEN 500 ELSE 200))
    /\ UNCHANGED <<pc, model_loaded, image, trace, detections, raised,
                   maturity_analysis, report, reqs>>

\* The loop of batch_upload from file i on. st holds uuid_count,
\* upload_folder, history, the names saved so far and exc, TRUE once
\* process_image has raised (the loop is left for the except clause).
\* Each allowed file is saved under a fresh name and processed, and its
\* result is saved to the history under a batch_id drawn for that file.
RECURSIVE BatchLoop(_, _, _, _, _)
BatchLoop(files, oracles, i, st, request) ==
    IF i > Len(files) \/ st.exc THEN st
    ELSE IF ~allowed_file(files[i].filename)
    THEN BatchLoop(files, oracles, i + 1, st, request)
    ELSE LET unique == UniqueFilename(st.uuid_count + 1, files[i].filename)
             p == process_image(oracles[i].img, model_loaded, oracles[i].yolo,
                               NoCv)
             saved == [st EXCEPT !.uuid_count = @ + 1,
                                 !.upload_folder = @ \cup {unique},
                                 !.saved = Append(@, unique)]
         IN  IF p.exc THEN [saved EXCEPT !.exc = TRUE]
             ELSE BatchLoop(files, oracles, i + 1,
                      [saved EXCEPT
                          !.uuid_count = @ + 1,
                          !.history = Append(@,
                              save_analysis(p.result, unique,
                                            saved.uuid_count + 1, request))],
                      request)

\* What cv2.imread and the model yield on each file of a batch.
BatchOracles(files) ==
    LET all == UNION {{[img |-> img, yolo |-> y] : y \in WebOracles(img)} :
                         img \in WebImages \cup {NullImage}}
    IN  {o \in [1..Len(files) -> all] :
            \A i \in 1..Len(files) :
                /\ o[i].img \in ImreadOutcomes(files[i].content)
                /\ ~allowed_file(files[i].filename) =>
                       o[i] = [img |-> NullImage, yolo |-> NoYolo]}

BatchFiles ==
    {f \in WebFiles : f.filename.ext \in {"jpg", "txt"} /\ f.content.kind # "broken"}

\* batch_upload, the whole handler: no 'files[]' part is answered
\* 400; else the loop runs, and the answer is 200, or 500 when process_image
\* raised on a file; what was saved before stays.
BatchUpload ==
    /\ Len(responses) < MaxReq
    /\ \/ /\ responses' = Append(responses, Response("batch_upload", << >>, << >>, 400))
          /\ UNCHANGED <<uuid_count, upload_folder, history>>
       \/ \E files \in SeqUpTo(BatchFiles, MaxBatch) :
          \E oracles \in BatchOracles(files) :
          \E st \in {BatchLoop(files, oracles, 1,
                           [uuid_count |-> uuid_count,
                            upload_folder |-> upload_folder,
                            history |-> history, saved |-> << >>,
                            exc |-> FALSE],
                           Len(responses) + 1)} :
                 /\ uuid_count' = st.uuid_count
                 /\ upload_folder' = st.upload_folder
                 /\ history' = st.history
                 /\ responses' = Append(responses,
                        Response("batch_upload", files, st.saved,
                                 IF st.exc THEN 500 ELSE 200))
    /\ UNCHANGED <<pc, model_loaded, image, trace, detections, raised,
                   maturity_analysis, report, reqs>>

\* --------------------------------------------- process_image, concurrently
\* The steps of process_image taken by request r, one of several that run in
\* threads of the same process and share the module-level detector (its
\* model_loaded flag), image_processor and report_generator. reqs[r] holds
\* the request's locals and, as yolo, what the model yields on its image.
Stepped(r, fields) ==
    [reqs EXCEPT ![r] = [k \in DOMAIN reqs[r] |->
                            IF k \in DOMAIN fields THEN fields[k]
                            ELSE reqs[r][k]]]

\* ConcDetectYolo also clearing detector.model_loaded when the model call
\* has failed.
ConcDetectYoloDisabling(r) ==
    /\ reqs[r].pc = "detect"
    /\ model_loaded
    /\ \E step \in {DetectPrimary(reqs[r].yolo)} :
        /\ reqs' = Stepped(r, [pc |-> step.next, trace |-> step.r.calls,
                               detections |-> step.r.val])
        /\ model_loaded' = ~step.r.calls[1].failed
    /\ UNCHANGED <<pc, image, trace, detections, raised,
                   maturity_analysis, report, webvars>>

\* detect of request r: the primary model is asked.
ConcDetectYolo(r) ==
    /\ reqs[r].pc = "detect"
    /\ model_loaded
    /\ \E step \in {DetectPrimary(reqs[r].yolo)} :
        reqs' = Stepped(r, [pc |-> step.next, trace |-> step.r.calls,
                            detections |-> step.r.val])
    /\ UNCHANGED <<pc, model_loaded, image, trace, detections, raised,
                   maturity_analysis, report, webvars>>

\* detect of request r: the colour stage.
ConcDetectColorBased(r) ==
    /\ \/ reqs[r].pc = "detect" /\ ~model_loaded
       \/ reqs[r].pc \in {"color", "handler"}
    /\ \E d \in {DetectColor(reqs[r].image, NoCv, reqs[r].pc = "handler")} :
        reqs' = Stepped(r, [pc |-> IF d.exc THEN "failed" ELSE "detected",
                            trace |-> reqs[r].trace \o d.calls,
                            raised |-> d.exc,
                            detections |-> d.val])
    /\ UNCHANGED <<pc, model_loaded, image, trace, detections, raised,
                   maturity_analysis, report, webvars>>

\* analyze_maturity of request r
ConcAnalyzeMaturity(r) ==
    /\ reqs[r].pc = "detected"
    /\ reqs' = Stepped(r,
           [pc |-> "analyzed",
            maturity_analysis |->
                analyze_maturity(reqs[r].detections, reqs[r].image),
            detections |->
                MutatedDetections(reqs[r].detections, reqs[r].image)])
    /\ UNCHANGED <<pc, model_loaded, image, trace, detections, raised,
                   maturity_analysis, report, webvars>>

\* generate_report of request r: the report is built in a copy of
\* report_generator.report_template.
ConcGenerateReport(r) ==
    /\ reqs[r].pc = "analyzed"
    /\ reqs' = Stepped(r,
           [pc |-> "reported",
            report |-> generate_report(reqs[r].maturity_analysis)])
    /\ UNCHANGED <<pc, model_loaded, image, trace, detections, raised,
                   maturity_analysis, report, webvars>>

\* No request has reached the web application.
NoRequests ==
    /\ reqs = << >>
    /\ uuid_count = 0
    /\ upload_folder = {}
    /\ history = << >>
    /\ responses = << >>

\* ---------------------------------------------------------------- actions
\* DetectYolo without the test of model_loaded.
DetectYoloUnguarded ==
    /\ pc = "detect"
    /\ \E outcome \in YoloOutcomes(image) :
        LET step == DetectPrimary(outcome)
        IN  /\ pc' = step.next
            /\ trace' = step.r.calls
            /\ detections' = step.r.val
    /\ UNCHANGED <<model_loaded, image, raised, maturity_analysis, report>>
    /\ UNCHANGED <<reqs, webvars>>

\* detect: the primary model is asked (model_loaded and model is not None).
DetectYolo ==
    /\ pc = "detect"
    /\ model_loaded
    /\ \E outcome \in YoloOutcomes(image) :
        LET step == DetectPrimary(outcome)
        IN  /\ pc' = step.next
            /\ trace' = step.r.calls
            /\ detections' = step.r.val
    /\ UNCHANGED <<model_loaded, image, raised, maturity_analysis, report>>
    /\ UNCHANGED <<reqs, webvars>>

\* detect: colour segmentation, contours and, when none is kept, circles.
DetectColorBased ==
    /\ \/ pc = "detect" /\ ~model_loaded
       \/ pc \in {"color", "handler"}
    /\ \E cv \in CvOutcomes(image) :
        LET r == DetectColor(image, cv, pc = "handler")
        IN  /\ trace' = trace \o r.calls
            /\ raised' = r.exc
            /\ detections' = r.val
            /\ pc' = IF r.exc THEN "failed" ELSE "detected"
    /\ UNCHANGED <<model_loaded, image, maturity_analysis, report>>
    /\ UNCHANGED <<reqs, webvars>>

\* process_image: maturity_analysis = detector.analyze_maturity(detections, image)
AnalyzeMaturity ==
    /\ pc = "detected"
    /\ maturity_analysis' = analyze_maturity(detections, image)
    /\ detections' = MutatedDetections(detections, image)
    /\ pc' = "analyzed"
    /\ UNCHANGED <<model_loaded, image, trace, raised, report>>
    /\ UNCHANGED <<reqs, webvars>>

\* process_image: report = report_generator.generate_report(maturity_analysis, path)
GenerateReport ==
    /\ pc = "analyzed"
    /\ report' = generate_report(maturity_analysis)
    /\ pc' = "reported"
    /\ UNCHANGED <<model_loaded, image, trace, detections, raised,
                   maturity_analysis>>
    /\ UNCHANGED <<reqs, webvars>>

\* ------------------------------------------------------------------ Spec
\* process_image on one image: 1 x 1, 1 x BigDim, BigDim x 1 or BigDim x BigDim.
PipeImages == Images({1, BigDim}, {1, BigDim}, {Dark, Green}, BOOLEAN)

Init ==
    /\ pc = "detect"
    /\ model_loaded \in BOOLEAN
    /\ image \in PipeImages
    /\ trace = << >>
    /\ detections = << >>
    /\ raised = FALSE
    /\ maturity_analysis = NoValue
    /\ report = NoValue
    /\ NoRequests

Next == DetectYolo \/ DetectColorBased \/ AnalyzeMaturity \/ GenerateReport

Spec == Init /\ [][Next]_vars

\* --------------------------------------------------------------- SpecBox
\* analyze_maturity on one detection with any bbox, in or out of the image,
\* on images of one colour.
Coord == -1..MaxDim

BoxDetections ==
    {[bbox |-> b, class |-> "blueberry"] : b \in [1..4 -> Coord]} \cup
    {[bbox |-> b, class |-> "blueberry", maturity |-> m] :
        b \in [1..4 -> Coord],
        m \in {"maduro", "semimaduro", "no_maduro", None}}

InitBox ==
    /\ pc = "detected"
    /\ model_loaded = FALSE
    /\ image \in {img \in Images(1..MaxDim, 1..MaxDim,
                                 {Dark, Light, Green, Blue, Pale, Mid}, BOOLEAN) :
                     img.left = img.right}
    /\ trace = << >>
    /\ \E d \in BoxDetections : detections = <<d>>
    /\ raised = FALSE
    /\ maturity_analysis = NoValue
    /\ report = NoValue
    /\ NoRequests

NextBox == AnalyzeMaturity

SpecBox == InitBox /\ [][NextBox]_vars

\* ------------------------------------------------------------ SpecReport
\* generate_report on any list of up to MaxAgg labelled detections.
LabelDetections ==
    {[class |-> "blueberry"]} \cup
    {[class |-> "blueberry", maturity |-> m] :
        m \in {"maduro", "semimaduro", "no_maduro", "unknown", None}}

InitReport ==
    /\ pc = "analyzed"
    /\ model_loaded = FALSE
    /\ image = NoValue
    /\ trace = << >>
    /\ detections = << >>
    /\ raised = FALSE
    /\ \E ds \in SeqUpTo(LabelDetections, MaxAgg) :
        maturity_analysis = [detections |-> ds, image_resolution |-> NoValue,
                             total_detected |-> Len(ds)]
    /\ report = NoValue
    /\ NoRequests

NextReport == GenerateReport

SpecReport == InitReport /\ [][NextReport]_vars

\* ----------------------------------------------------------- SpecContour
\* The colour stage of detect (no model loaded) on images whose sides are
\* BigDim or those of the 640 x 480 test image.
TestW == 640
TestH == 480

ContourImages == Images({BigDim, TestW}, {BigDim, TestH}, {Dark, Green}, BOOLEAN)

InitContour ==
    /\ pc = "detect"
    /\ model_loaded = FALSE
    /\ image \in ContourImages
    /\ trace = << >>
    /\ detections = << >>
    /\ raised = FALSE
    /\ maturity_analysis = NoValue
    /\ report = NoValue
    /\ NoRequests

NextContour == DetectColorBased

SpecContour == InitContour /\ [][NextContour]_vars

\* -------------------------------------------------------------- SpecConf
\* analyze_maturity on one detection of a two-band image ConfDim wide and 2
\* high, the box spanning any range of columns.
ConfImages == Images({ConfDim}, {2}, {Dark, Green, Red}, BOOLEAN)

ConfDetections ==
    LET boxes == {[bbox |-> <<x1, 0, x2, 1>>, class |-> "blueberry"] :
                     x1 \in 0..ConfDim, x2 \in 0..ConfDim}
    IN  boxes \cup {SetField(d, "maturity", "maduro") : d \in boxes}

InitConf ==
    /\ pc = "detected"
    /\ model_loaded = FALSE
    /\ image \in ConfImages
    /\ trace = << >>
    /\ \E d \in ConfDetections : detections = <<d>>
    /\ raised = FALSE
    /\ maturity_analysis = NoValue
    /\ report = NoValue
    /\ NoRequests

NextConf == AnalyzeMaturity

SpecConf == InitConf /\ [][NextConf]_vars

\* ------------------------------------------------------------- SpecHough
\* The colour stage of detect (no model loaded) on images whose sides lie
\* around the size at which 15% of the smaller side reaches 5 pixels.
HoughSides == (MaxSide - 6)..MaxSide

HoughImages == Images(HoughSides, HoughSides, {Dark}, BOOLEAN)

InitHough ==
    /\ pc = "detect"
    /\ model_loaded = FALSE
    /\ image \in HoughImages
    /\ trace = << >>
    /\ detections = << >>
    /\ raised = FALSE
    /\ maturity_analysis = NoValue
    /\ report = NoValue
    /\ NoRequests

NextHough == DetectColorBased

SpecHough == InitHough /\ [][NextHough]_vars

\* --------------------------------------------------------------- SpecWeb
\* The web application answering /upload and /batch_upload requests one after
\* the other, with the model loaded.
InitWeb ==
    /\ pc = "idle"
    /\ model_loaded = TRUE
    /\ image = NullImage
    /\ trace = << >>
    /\ detections = << >>
    /\ raised = FALSE
    /\ maturity_analysis = NoValue
    /\ report = NoValue
    /\ NoRequests

NextWeb == UploadFile \/ BatchUpload

SpecWeb == InitWeb /\ [][NextWeb]_vars

\* -------------------------------------------------------------- SpecConc
\* NumReq requests, each with an image of one colour and with what the model
\* yields on it, processed by threads that interleave after every stage.
ConcImages ==
    {img \in Images({MaxDim}, {MaxDim}, {Dark, Green}, {FALSE}) :
        img.left = img.right}

ConcRequests ==
    UNION {{[pc |-> "detect", image |-> img, yolo |-> y, trace |-> << >>,
             detections |-> << >>, raised |-> FALSE,
             maturity_analysis |-> NoValue, report |-> NoValue] :
               y \in WebOracles(img)} : img \in ConcImages}

InitConc ==
    /\ pc = "idle"
    /\ model_loaded \in BOOLEAN
    /\ image = NullImage
    /\ trace = << >>
    /\ detections = << >>
    /\ raised = FALSE
    /\ maturity_analysis = NoValue
    /\ report = NoValue
    /\ reqs \in [1..NumReq -> ConcRequests]
    /\ uuid_count = 0
    /\ upload_folder = {}
    /\ history = << >>
    /\ responses = << >>

NextConc ==
    \E r \in DOMAIN reqs :
        \/ ConcDetectYolo(r)
        \/ ConcDetectColorBased(r)
        \/ ConcAnalyzeMaturity(r)
        \/ ConcGenerateReport(r)

SpecConc == InitConc /\ [][NextConc]_vars

\* --------------------------------------------------------------- SpecApi
\* The detector's entry points called directly: detect on any image, also one
\* without pixels or None, and analyze_maturity on any image and any list of
\* up to MaxDet detection dicts, well formed or not.
NoPixelImages ==
    {img \in Images(0..MaxDim, 0..MaxDim, {Dark}, {TRUE}) :
        img.w = 0 \/ img.h = 0} \cup {NullImage}

ApiImages ==
    {img \in Images(1..MaxDim, 1..MaxDim, {Dark, Green}, BOOLEAN) :
        img.left = img.right} \cup NoPixelImages

\* bbox values: inside, on the right edge, with a malformed entry, with three
\* entries; or no bbox key at all.
ApiBoxes ==
    {<<0, 0, 1, 1>>, <<MaxDim, 0, MaxDim, 1>>, <<0, 0, NaN, 1>>, <<0, 0, 1>>}

ApiDetections ==
    LET labelled(d) == {d} \cup {SetField(d, "maturity", m) : m \in {None, "maduro"}}
    IN  UNION {labelled(d) :
                  d \in {[class |-> "blueberry"]} \cup
                        {[class |-> "blueberry", bbox |-> b] : b \in ApiBoxes}}

InitApi ==
    /\ pc \in {"detect", "detected"}
    /\ model_loaded \in IF pc = "detect" THEN BOOLEAN ELSE {FALSE}
    /\ image \in ApiImages
    /\ trace = << >>
    /\ detections \in IF pc = "detect" THEN {<< >>}
                      ELSE SeqUpTo(ApiDetections, MaxDet)
    /\ raised = FALSE
    /\ maturity_analysis = NoValue
    /\ report = NoValue
    /\ NoRequests

NextApi == Next

SpecApi == InitApi /\ [][NextApi]_vars

\* ------------------------------------------------------------- SpecBands
\* generate_report on lists of up to MaxBand detections grouped by label (the
\* aggregator counts labels, so the order within the list does not matter).
Repeat(d, n) == [i \in 1..n |-> d]

GroupedLists ==
    {Repeat([class |-> "blueberry", maturity |-> "maduro"], n[1])
       \o Repeat([class |-> "blueberry", maturity |-> "semimaduro"], n[2])
       \o Repeat([class |-> "blueberry", maturity |-> "no_maduro"], n[3])
       \o Repeat([class |-> "blueberry", maturity |-> "unknown"], n[4]) :
        n \in {m \in [1..4 -> 0..MaxBand] : m[1] + m[2] + m[3] + m[4] <= MaxBand}}

InitBands ==
    /\ pc = "analyzed"
    /\ model_loaded = FALSE
    /\ image = NoValue
    /\ trace = << >>
    /\ detections = << >>
    /\ raised = FALSE
    /\ \E ds \in GroupedLists :
        maturity_analysis = [detections |-> ds, image_resolution |-> NoValue,
                             total_detected |-> Len(ds)]
    /\ report = NoValue
    /\ NoRequests

NextBands == GenerateReport

SpecBands == InitBands /\ [][NextBands]_vars

\* ================================================================ claims
Recognised == {"maduro", "semimaduro", "no_maduro"}

\* The step of analyze_maturity.
AnalyzeStep == pc = "detected" /\ pc' = "analyzed"

\* C1: after analyze_maturity every stored bbox satisfies 0 <= x1 < x2 <= W-1
\* and 0 <= y1 < y2 <= H-1 (inside the image, no zero width or height).
\* Stated for images of at least 2 x 2 pixels, where such a box exists.
BBoxValid(b, img) ==
    /\ 0 <= b[1] /\ b[1] < b[3] /\ b[3] <= img.w - 1
    /\ 0 <= b[2] /\ b[2] < b[4] /\ b[4] <= img.h - 1

C1_BBoxInsideNonEmpty ==
    (pc = "analyzed" /\ image.w >= 2 /\ image.h >= 2) =>
        \A i \in 1..Len(maturity_analysis.detections) :
            BBoxValid(maturity_analysis.detections[i].bbox, image)

\* C2: detect tries primary model, contours, circles in that order; a later
\* strategy runs only if every earlier one that ran produced nothing; the
\* returned list is the output of the first strategy that produced anything
\* (empty if none did).
Rank(strategy) ==
    IF strategy = "yolo" THEN 1 ELSE IF strategy = "contour" THEN 2 ELSE 3

FirstNonEmpty(calls) ==
    IF \E i \in 1..Len(calls) : calls[i].out # << >>
    THEN calls[CHOOSE i \in 1..Len(calls) :
                  /\ calls[i].out # << >>
                  /\ \A j \in 1..(i - 1) : calls[j].out = << >>].out
    ELSE << >>

C2_StrategyOrder ==
    /\ \A i, j \in 1..Len(trace) :
          i < j => /\ Rank(trace[i].strategy) < Rank(trace[j].strategy)
                   /\ trace[i].out = << >>
    /\ trace # << >> =>
          trace[1].strategy = IF model_loaded THEN "yolo" ELSE "contour"
    /\ pc = "detected" =>
          /\ trace # << >>
          /\ detections = FirstNonEmpty(trace)

C2_Witness ==
    /\ pc = "detected"
    /\ Len(trace) = 3
    /\ detections # << >>
    /\ detections = trace[3].out

\* C3: detect never lets an exception escape; a raising primary model is
\* handled like one that returned nothing: detect goes on to the colour stage
\* and returns what that stage returns.
C3_DetectNeverRaises ==
    /\ ~raised
    /\ pc # "failed"
    /\ (trace # << >> /\ trace[1].strategy = "yolo" /\ trace[1].failed) =>
          /\ pc # "handler"
          /\ pc = "detected" =>
                /\ Len(trace) >= 2
                /\ trace[2].strategy = "contour"
                /\ detections = trace[Len(trace)].out

C3_Witness ==
    /\ pc = "detected"
    /\ trace[1].strategy = "yolo"
    /\ trace[1].failed
    /\ detections # << >>

\* C4: a detection that enters analyze_maturity with a recognised label
\* (maduro / semimaduro / no_maduro) leaves it with the same label.
C4_ModelLabelKept ==
    [][AnalyzeStep =>
          \A i \in 1..Len(detections) :
              GetMaturity(detections[i], None) \in Recognised =>
                  /\ detections'[i].maturity = detections[i].maturity
                  /\ maturity_analysis'.detections[i].maturity
                         = detections[i].maturity]_vars

\* The crop of an analysed detection (its bbox is already normalised).
RegionOf(d, img) == Crop(img, d.bbox[1], d.bbox[2], d.bbox[3], d.bbox[4])

\* A kept label that the colour heuristic would have contradicted.
C4_Witness ==
    /\ pc = "analyzed"
    /\ Len(detections) = 1
    /\ detections[1].maturity = "maduro"
    /\ RegionSize(RegionOf(detections[1], image)) > 0
    /\ _analyze_berry_maturity(image, RegionOf(detections[1], image)) = "no_maduro"

\* C5: the heuristic label of a crop with means (hue, sat, val) is semimaduro
\* if hue < 120, sat > 100 and val > 150; maduro if hue < 120, sat > 100 and
\* val <= 150; no_maduro if hue >= 120 (120 included); unknown otherwise.
C5_Label(hue, sat, val, n) ==
    IF hue < 120 * n /\ sat > 100 * n /\ val > 150 * n THEN "semimaduro"
    ELSE IF hue < 120 * n /\ sat > 100 * n /\ val <= 150 * n THEN "maduro"
    ELSE IF hue >= 120 * n THEN "no_maduro"
    ELSE "unknown"

C5_HeuristicLadder ==
    [][AnalyzeStep =>
          \A i \in 1..Len(detections) :
              LET d      == detections[i]
                  region == RegionOf(detections'[i], image)
              IN  (/\ HasBBox(d)
                   /\ GetMaturity(d, None) \notin Recognised
                   /\ RegionSize(region) > 0
                   /\ ~image.cvt_fails) =>
                      detections'[i].maturity =
                          C5_Label(ChannelSum(image, region, 1),
                                   ChannelSum(image, region, 2),
                                   ChannelSum(image, region, 3), region.cols)]_vars

\* The four buckets of the aggregator.
Buckets == {"maduro", "semimaduro", "no_maduro", "unknown"}

\* The detections handed to generate_report, and how many carry a label.
Fed == maturity_analysis.detections
NumLabelled(dets, label) ==
    Cardinality({i \in 1..Len(dets) : GetMaturity(dets[i], "absent") = label})

Dist == report.maturity_analysis

\* C6: the class counts sum to the number of detections fed to the
\* aggregator, and total_analyzed is that number.
C6_CountsSumToLen ==
    pc = "reported" =>
        /\ SumValues(Dist.counts, DOMAIN Dist.counts) = Len(Fed)
        /\ Dist.total_analyzed = Len(Fed)

C6_Witness ==
    /\ pc = "reported"
    /\ Len(Fed) = MaxAgg
    /\ NumLabelled(Fed, None) > 0
    /\ NumLabelled(Fed, "absent") > 0
    /\ NumLabelled(Fed, "maduro") > 0

\* C7: the counts have exactly the four buckets maduro, semimaduro, no_maduro
\* and unknown, and every detection whose maturity is unset (key absent or
\* None) is counted under unknown. Stated on images of at least 2 x 2 pixels.
C7_FourBucketsUnsetIsUnknown ==
    (pc = "reported" /\ image.w >= 2 /\ image.h >= 2) =>
        /\ DOMAIN Dist.counts = Buckets
        /\ Dist.counts["unknown"] >=
               NumLabelled(Fed, None) + NumLabelled(Fed, "absent")

\* C8: for an empty detection list all four counts are 0, each of the four
\* classes has percentage 0, the score is 0 and the harvest and timing texts
\* are those of the lowest band.
C8_EmptyListReport ==
    (pc = "reported" /\ Fed = << >>) =>
        /\ \A k \in Buckets : k \in DOMAIN Dist.counts /\ Dist.counts[k] = 0
        /\ \A k \in Buckets :
              k \in DOMAIN Dist.percentages /\ Dist.percentages[k] = 0
        /\ Dist.maturity_score = 0
        /\ report.recommendations.harvest_recommendation
               = "No cosechar aun - Frutos predominantemente inmaduros"
        /\ report.recommendations.timing_recommendation
               = "Esperar - Continuar monitoreo semanal"

\* C9: with total = the number of detections (unknown ones included) the
\* score is 0 when total = 0, else 100 (ripe + semi/2) / total to the nearest
\* tenth; it lies in [0, 100]. Scores are in tenths: |score - exact| <= 1/2.
C9_ScoreFormula ==
    pc = "reported" =>
        LET total == Len(Fed)
            exact == 1000 * (2 * NumLabelled(Fed, "maduro")
                             + NumLabelled(Fed, "semimaduro"))
            diff  == 2 * total * Dist.maturity_score - exact
        IN  /\ total = 0 => Dist.maturity_score = 0
            /\ total > 0 => diff <= total /\ -diff <= total
            /\ 0 <= Dist.maturity_score /\ Dist.maturity_score <= 1000

C9_Witness ==
    /\ pc = "reported"
    /\ NumLabelled(Fed, "unknown") > 0
    /\ NumLabelled(Fed, "maduro") > 0
    /\ NumLabelled(Fed, "semimaduro") > 0
    /\ Dist.maturity_score = 500

\* C10: with the number of detections fixed, relabelling one detection to
\* maduro never lowers the score and relabelling one to no_maduro never
\* raises it.
Relabelled(dets, i, label) ==
    [dets EXCEPT ![i] = SetField(dets[i], "maturity", label)]

ScoreOf(dets) ==
    generate_report([maturity_analysis EXCEPT !.detections = dets])
        .maturity_analysis.maturity_score

C10_ScoreMonotone ==
    pc = "reported" =>
        \A i \in 1..Len(Fed) :
            /\ ScoreOf(Relabelled(Fed, i, "maduro")) >= Dist.maturity_score
            /\ ScoreOf(Relabelled(Fed, i, "no_maduro")) <= Dist.maturity_score

C10_Witness ==
    /\ pc = "reported"
    /\ Len(Fed) = MaxAgg
    /\ \E i \in 1..Len(Fed) :
          /\ GetMaturity(Fed[i], None) = "semimaduro"
          /\ ScoreOf(Relabelled(Fed, i, "maduro")) > Dist.maturity_score
          /\ ScoreOf(Relabelled(Fed, i, "no_maduro")) < Dist.maturity_score

\* C11: the harvest text and the timing text are both those of one band,
\* chosen by inclusive lower bounds from the highest down: score >= 80
\* immediate, >= 60 the 2-3 day band, >= 40 the 5-7 day band, >= 20 the
\* 10-14 day band, else do not harvest; 8 ripe and 2 semi-ripe of 10 give
\* score 90.0 and the immediate band.
C11_Band(s) ==
    IF s >= 800 THEN 1 ELSE IF s >= 600 THEN 2 ELSE IF s >= 400 THEN 3
    ELSE IF s >= 200 THEN 4 ELSE 5

C11_HarvestTexts ==
    <<"Cosecha inmediata recomendada - Alta proporcion de frutos maduros",
      "Cosecha en 2-3 dias - Buena proporcion de frutos maduros",
      "Cosecha en 5-7 dias - Proporcion moderada de frutos maduros",
      "Cosecha en 10-14 dias - Mayoria de frutos aun inmaduros",
      "No cosechar aun - Frutos predominantemente inmaduros">>

C11_TimingTexts ==
    <<"Urgente - Cosechar dentro de 24-48 horas",
      "Pronto - Cosechar dentro de 3-5 dias",
      "Moderado - Cosechar dentro de 1 semana",
      "Paciente - Cosechar dentro de 2 semanas",
      "Esperar - Continuar monitoreo semanal">>

EightRipeTwoSemi ==
    /\ Len(Fed) = 10
    /\ NumLabelled(Fed, "maduro") = 8
    /\ NumLabelled(Fed, "semimaduro") = 2

C11_SameBand ==
    pc = "reported" =>
        LET b == C11_Band(Dist.maturity_score)
        IN  /\ report.recommendations.harvest_recommendation = C11_HarvestTexts[b]
            /\ report.recommendations.timing_recommendation = C11_TimingTexts[b]
            /\ EightRipeTwoSemi => Dist.maturity_score = 900 /\ b = 1

C11_Witness ==
    /\ pc = "reported"
    /\ EightRipeTwoSemi
    /\ report.recommendations.timing_recommendation = C11_TimingTexts[1]

\* C12: the quality text is a function of the ripe fraction ripe / total
\* alone: >= 70% excellent, >= 50% good, >= 30% fair, else poor, and the
\* no-fruit text for total = 0; it does not follow the score band (a score
\* >= 80 can come with a quality that is not excellent).
C12_Quality(ripe, total) ==
    IF total = 0 THEN "No se detectaron frutos"
    ELSE IF 10 * ripe >= 7 * total THEN "Excelente - Alta calidad de maduracion"
    ELSE IF 10 * ripe >= 5 * total THEN "Buena - Calidad de maduracion aceptable"
    ELSE IF 10 * ripe >= 3 * total THEN "Regular - Calidad de maduracion moderada"
    ELSE "Baja - Calidad de maduracion deficiente"

C12_QualityByRipeFraction ==
    pc = "reported" =>
        report.recommendations.quality_assessment
            = C12_Quality(NumLabelled(Fed, "maduro"), Len(Fed))

C12_Witness ==
    /\ pc = "reported"
    /\ Dist.maturity_score >= 800
    /\ report.recommendations.quality_assessment
           = "Buena - Calidad de maduracion aceptable"

\* The image is None or has no pixels.
NoPixels(img) == IsNone(img) \/ img.w = 0 \/ img.h = 0

\* A call of analyze_maturity on an image with pixels whose loop runs to the
\* end (nothing raises).
LoopCompletes == ~NoPixels(image) /\ FirstRaise(detections, image) = 0

\* C13: a detection whose crop is degenerate (zero area after clamping)
\* leaves analyze_maturity with maturity unknown and maturity_confidence 0.
\* Stated for detections that enter without a recognised label (maturity
\* None or not set), in calls on an image with pixels whose loop runs to the
\* end.
C13_DegenerateCropUnknown ==
    [][(AnalyzeStep /\ LoopCompletes) =>
          \A i \in 1..Len(detections) :
              (/\ HasBBox(detections[i])
               /\ GetMaturity(detections[i], None) \notin Recognised
               /\ RegionSize(RegionOf(detections'[i], image)) = 0) =>
                  /\ detections'[i].maturity = "unknown"
                  /\ detections'[i].maturity_confidence = [num |-> 0, den |-> 1]]_vars

\* C14: a failure on one detection (here a malformed bbox value) touches only
\* that detection: every other detection of the list with a well-formed
\* 4-entry bbox is still given a maturity and returned. Stated for images
\* with pixels.
WellFormed(dets, img) ==
    {j \in 1..Len(dets) : HasBBox(dets[j]) /\ ~RaisesAt(dets[j], img)}

C14_FailureIsLocal ==
    [][(AnalyzeStep /\ ~NoPixels(image)) =>
          /\ \A j \in WellFormed(detections, image) :
                 "maturity" \in DOMAIN detections'[j]
          /\ Len(maturity_analysis'.detections)
                 >= Cardinality(WellFormed(detections, image))]_vars

\* C15: analyze_maturity returns as many detections as it was given and
\* total_detected is that number. Stated for calls on an image with pixels
\* whose loop runs to the end.
C15_NoDetectionDropped ==
    [][(AnalyzeStep /\ LoopCompletes) =>
          /\ Len(maturity_analysis'.detections) = Len(detections)
          /\ maturity_analysis'.total_detected = Len(detections)]_vars

\* C16: on an image that is None or has no pixels, detect and
\* analyze_maturity do not return normally.
C16_InvalidImageFails ==
    NoPixels(image) =>
        /\ ~(pc = "detected" /\ trace # << >>)
        /\ pc \notin {"analyzed", "reported"}

\* C17: within one call of the colour stage the circle search runs exactly
\* when the contour stage ended with an empty list of kept contours: a
\* contour stage that kept nothing is followed by the circle search, and the
\* circle search is preceded by a contour stage that kept nothing.
C17_CircleIffNoContour ==
    \A i \in 1..Len(trace) :
        /\ (trace[i].strategy = "contour" /\ ~trace[i].failed
                /\ trace[i].out = << >>) =>
               i < Len(trace) /\ trace[i + 1].strategy = "circle"
        /\ trace[i].strategy = "circle" =>
               /\ i > 1
               /\ trace[i - 1].strategy = "contour"
               /\ ~trace[i - 1].failed
               /\ trace[i - 1].out = << >>
        /\ (trace[i].strategy = "contour" /\ trace[i].out # << >>) =>
               i = Len(trace)

C17_Witness ==
    /\ pc = "detected"
    /\ ~model_loaded
    /\ Len(trace) = 2
    /\ trace[1].strategy = "contour"
    /\ trace[2].strategy = "circle"
    /\ trace[2].out # << >>

\* C18: when the primary model is not loaded, detect never invokes it and
\* returns exactly what the colour stage returned.
C18_UnavailableModelSkipped ==
    ~model_loaded =>
        /\ \A i \in 1..Len(trace) : trace[i].strategy # "yolo"
        /\ pc \notin {"color", "handler"}
        /\ pc = "detected" =>
              /\ trace # << >>
              /\ trace[1].strategy = "contour"
              /\ detections = trace[Len(trace)].out

C18_Witness ==
    /\ ~model_loaded
    /\ pc = "detected"
    /\ Len(trace) = 1
    /\ detections # << >>

\* C19: every bbox emitted by the circle search lies in the image, all four
\* coordinates in [0, W-1] x [0, H-1], and its confidence is 0.5.
C19_CircleBBoxInImage ==
    \A i \in 1..Len(trace) :
        trace[i].strategy = "circle" =>
            \A k \in 1..Len(trace[i].out) :
                LET d == trace[i].out[k]
                IN  /\ d.confidence = [num |-> 1, den |-> 2]
                    /\ 0 <= d.bbox[1] /\ d.bbox[1] <= image.w - 1
                    /\ 0 <= d.bbox[2] /\ d.bbox[2] <= image.h - 1
                    /\ 0 <= d.bbox[3] /\ d.bbox[3] <= image.w - 1
                    /\ 0 <= d.bbox[4] /\ d.bbox[4] <= image.h - 1

\* C20 as stated: every contour the contour stage keeps has
\* area >= max(100, 0.0005 x image_area), the threshold taken as a real
\* number (area >= 100 and 2000 area >= image_area; the 'area' of a kept
\* detection is held as twice cv2.contourArea).
C20_RealThreshold ==
    \A i \in 1..Len(trace) :
        trace[i].strategy = "contour" =>
            \A k \in 1..Len(trace[i].out) :
                /\ trace[i].out[k].area >= 200
                /\ 1000 * trace[i].out[k].area >= image.w * image.h

\* C20, amended: every contour the contour stage keeps has
\* area >= max(100, floor(0.0005 x image_area)): the relative threshold is
\* truncated to whole pixels before the comparison.
C20_TruncatedThreshold ==
    \A i \in 1..Len(trace) :
        trace[i].strategy = "contour" =>
            \A k \in 1..Len(trace[i].out) :
                /\ trace[i].out[k].area >= 200
                /\ trace[i].out[k].area >= 2 * ((image.w * image.h) \div 2000)

\* A kept contour whose area lies between the truncated and the real
\* threshold (153.5 on the 640 x 480 image, thresholds 153 and 153.6).
C20_Witness ==
    /\ pc = "detected"
    /\ image.w * image.h = TestW * TestH
    /\ Len(trace) = 1
    /\ \E k \in 1..Len(trace[1].out) :
          /\ trace[1].out[k].area = 307
          /\ 1000 * trace[1].out[k].area < image.w * image.h

\* The hue of column x of the image, and the sum of its p-th power (p = 1, 2)
\* over the n columns from x on.
HueAt(img, x) == IF x < img.split THEN img.left[1] ELSE img.right[1]

RECURSIVE HuePowerSum(_, _, _, _)
HuePowerSum(img, x, n, p) ==
    IF n = 0 THEN 0
    ELSE (IF p = 1 THEN HueAt(img, x) ELSE HueAt(img, x) * HueAt(img, x))
         + HuePowerSum(img, x + 1, n - 1, p)

\* n * n times the hue variance of a crop of n columns.
ScaledHueVariance(img, region) ==
    region.cols * HuePowerSum(img, region.x0, region.cols, 2)
        - HuePowerSum(img, region.x0, region.cols, 1)
          * HuePowerSum(img, region.x0, region.cols, 1)

\* C21: after analyze_maturity a detection whose crop is not empty and
\* converts to HSV has maturity_confidence = clamp(1 - hue_variance / 1000,
\* 0, 1) of that crop; every maturity_confidence lies in [0, 1]; it is
\* exactly 1 when the hue variance of the crop is 0.
C21_ConfidenceFromHueVariance ==
    pc = "analyzed" =>
        \A i \in 1..Len(maturity_analysis.detections) :
            LET d      == maturity_analysis.detections[i]
                c      == d.maturity_confidence
                region == RegionOf(d, image)
                n2     == region.cols * region.cols
                v      == ScaledHueVariance(image, region)
                exact  == IF v >= 1000 * n2 THEN 0 ELSE 1000 * n2 - v
            IN  /\ 0 <= c.num /\ c.num <= c.den /\ c.den > 0
                /\ (RegionSize(region) > 0 /\ ~image.cvt_fails) =>
                       /\ c.num * 1000 * n2 = exact * c.den
                       /\ v = 0 => c.num = c.den

C21_Witness ==
    /\ pc = "analyzed"
    /\ ~image.cvt_fails
    /\ Len(maturity_analysis.detections) = 1
    /\ RegionSize(RegionOf(maturity_analysis.detections[1], image)) > 0
    /\ maturity_analysis.detections[1].maturity_confidence.num > 0
    /\ maturity_analysis.detections[1].maturity_confidence.num
           < maturity_analysis.detections[1].maturity_confidence.den

\* C22: the detections of the primary model are handed to analyze_maturity
\* as the model stage built them, and analyze_maturity changes only bbox,
\* maturity and maturity_confidence: confidence, class, class_id and area
\* (every other key) are the same before and after, in the dict and in the
\* returned list.
AnalysisKeys == {"bbox", "maturity", "maturity_confidence"}

C22_OtherFieldsUnchanged ==
    [][(AnalyzeStep /\ trace # << >> /\ trace[1].strategy = "yolo"
           /\ trace[1].out # << >>) =>
          /\ detections = trace[1].out
          /\ Len(detections') = Len(detections)
          /\ maturity_analysis'.detections = detections'
          /\ \A i \in 1..Len(detections) :
                /\ DOMAIN detections'[i] \ AnalysisKeys
                       = DOMAIN detections[i] \ AnalysisKeys
                /\ {"confidence", "class", "class_id", "area"}
                       \subseteq DOMAIN detections[i]
                /\ \A k \in DOMAIN detections[i] \ AnalysisKeys :
                       detections'[i][k] = detections[i][k]]_vars

C22_Witness ==
    /\ pc = "analyzed"
    /\ trace[1].strategy = "yolo"
    /\ Len(detections) = MaxDet
    /\ detections[1].bbox # trace[1].out[1].bbox
    /\ detections[1].confidence = trace[1].out[1].confidence
    /\ detections[1].class_id = trace[1].out[1].class_id

\* C26: analyze_maturity applied again to the detections it returned, with
\* the same image, returns them with every bbox and every maturity label
\* unchanged.
AnalyzedAgain == analyze_maturity(maturity_analysis.detections, image).detections

C26_Idempotent ==
    pc = "analyzed" =>
        /\ Len(AnalyzedAgain) = Len(maturity_analysis.detections)
        /\ \A i \in 1..Len(maturity_analysis.detections) :
              /\ AnalyzedAgain[i].bbox = maturity_analysis.detections[i].bbox
              /\ AnalyzedAgain[i].maturity = maturity_analysis.detections[i].maturity

\* A box the first pass had to move, with a label the first pass computed.
C26_Witness ==
    /\ pc = "analyzed"
    /\ image.w = MaxDim /\ image.h = MaxDim
    /\ Len(maturity_analysis.detections) = 1
    /\ maturity_analysis.detections[1].bbox = <<0, 0, 1, 1>>
    /\ maturity_analysis.detections[1].maturity = "no_maduro"
    /\ AnalyzedAgain[1].maturity = "no_maduro"

\* The call of analyze_maturity raised inside its try block (the detection
\* the loop stopped at is left untouched, so this can be read afterwards).
AnalysisRaised == IsNone(image) \/ FirstRaise(detections, image) # 0

\* The report sections of an analysis without any detection.
NoFruitReport ==
    generate_report([detections |-> << >>, image_resolution |-> <<1, 1>>,
                     total_detected |-> 0])

C28_QualityAndBandConsistent ==
    pc = "reported" =>
        /\ report.recommendations.quality_assessment
               = "Excelente - Alta calidad de maduracion" =>
              /\ Dist.maturity_score >= 700
              /\ report.recommendations.harvest_recommendation
                     \in {C11_HarvestTexts[1], C11_HarvestTexts[2]}
        /\ report.recommendations.harvest_recommendation = C11_HarvestTexts[5] =>
              /\ Dist.maturity_score < 200
              /\ report.recommendations.quality_assessment
                     \in {"Baja - Calidad de maduracion deficiente",
                          "No se detectaron frutos"}

\* Excellent quality on the lowest score it can come with.
C28_Witness ==
    /\ pc = "reported"
    /\ report.recommendations.quality_assessment
           = "Excelente - Alta calidad de maduracion"
    /\ Dist.maturity_score = 700
    /\ report.recommendations.harvest_recommendation = C11_HarvestTexts[2]

\* C29: two scores in different harvest bands get different next-steps
\* lists: the list reported with a score differs from the list of every
\* score of another band.
ProbeScores == {0, 100, 200, 300, 400, 500, 600, 700, 800, 900, 1000}

C29_NextStepsPerBand ==
    pc = "reported" =>
        \A s \in ProbeScores :
            C11_Band(s) # C11_Band(Dist.maturity_score) =>
                _get_next_steps(s) # report.recommendations.next_steps

\* The smaller side of the image.
SmallerSide == Min(image.h, image.w)

\* C30 as stated: whenever the circle search is invoked, the radius bounds
\* passed to it satisfy minRadius <= maxRadius.
C30_RadiusBoundsOrdered ==
    \A i \in 1..Len(trace) :
        trace[i].strategy = "circle" => MinRadius(image) <= MaxRadius(image)

\* C30, amended: the bounds passed are minRadius = max(5, floor(1% of the
\* smaller side)) and maxRadius = floor(15% of the smaller side), and
\* minRadius <= maxRadius holds exactly when the smaller side is at least
\* 34 pixels.
C30_RadiusBoundsOrderedFrom34 ==
    \A i \in 1..Len(trace) :
        trace[i].strategy = "circle" =>
            /\ MinRadius(image) = Max(5, SmallerSide \div 100)
            /\ MaxRadius(image) = (15 * SmallerSide) \div 100
            /\ MinRadius(image) <= MaxRadius(image) <=> SmallerSide >= 34

\* The circle search invoked on a 33-pixel side: maxRadius 4 < minRadius 5.
C30_Witness ==
    /\ pc = "detected"
    /\ Len(trace) = 2
    /\ trace[2].strategy = "circle"
    /\ SmallerSide = 33
    /\ MaxRadius(image) = 4
    /\ MinRadius(image) = 5

\* The file of request i was sent to /upload under an allowed name and its
\* content is not a valid image.
InvalidImageUpload(i) ==
    /\ responses[i].endpoint = "upload"
    /\ Len(responses[i].files) = 1
    /\ allowed_file(responses[i].files[1].filename)
    /\ responses[i].files[1].content.kind # "image"

\* C24: an /upload of a file with an allowed extension whose content is not a
\* valid image is answered 400; afterwards the file saved for the request is
\* not in the upload folder and the history has no record of the request.
C24_InvalidImageRejected ==
    \A i \in 1..Len(responses) :
        InvalidImageUpload(i) =>
            /\ responses[i].status = 400
            /\ \A k \in 1..Len(responses[i].saved) :
                   responses[i].saved[k] \notin upload_folder
            /\ \A k \in 1..Len(history) : history[k].request # i

\* Row k of the history was saved by a /batch_upload request.
BatchRow(k) == responses[history[k].request].endpoint = "batch_upload"

\* C25: the records saved by one /batch_upload request carry the same
\* batch_id, and records of different requests carry different batch_ids.
C25_OneBatchIdPerRequest ==
    \A i, j \in 1..Len(history) :
        BatchRow(i) /\ BatchRow(j) =>
            (history[i].batch_id = history[j].batch_id
                <=> history[i].request = history[j].request)

\* What request q gets when it is the only request: its detections as
\* analyze_maturity leaves them, and the result of process_image.
SoloRun(q) ==
    [detections |->
         MutatedDetections(detect(q.image, model_loaded, q.yolo, NoCv).val,
                           q.image),
     result |-> process_image(q.image, model_loaded, q.yolo, NoCv).result]

\* C23: no step of a request writes the detector's shared state, and under
\* every interleaving a request that has its report has the detections, the
\* analysis, the distribution and the recommendations it gets when it runs
\* alone.
C23_NoInterference ==
    [][/\ model_loaded' = model_loaded
       /\ \A r \in DOMAIN reqs :
              reqs'[r].pc = "reported" =>
                  \E solo \in {SoloRun(reqs'[r])} :
                      /\ reqs'[r].detections = solo.detections
                      /\ reqs'[r].maturity_analysis =
                             solo.result.maturity_analysis
                      /\ reqs'[r].report.maturity_analysis =
                             solo.result.report.maturity_analysis
                      /\ reqs'[r].report.recommendations =
                             solo.result.report.recommendations]_vars

\* Two requests on different images, both answered by the model with one
\* box, one with its report and the other between analysis and report.
C23_Witness ==
    /\ model_loaded
    /\ DOMAIN reqs # {}
    /\ \E r1, r2 \in DOMAIN reqs :
        /\ reqs[r1].image # reqs[r2].image
        /\ reqs[r1].pc = "reported"
        /\ reqs[r2].pc = "analyzed"
        /\ reqs[r1].maturity_analysis.total_detected = 1
        /\ reqs[r2].maturity_analysis.total_detected = 1
        /\ reqs[r1].report.maturity_analysis.counts["maduro"] = 1
        /\ reqs[r2].maturity_analysis.detections[1].maturity = "semimaduro"

====
